---------------------------- MODULE Spec2Model ----------------------------
(***************************************************************************)
(* Model of confee's Conf (src/src/conf.rs): a table of string pairs       *)
(* seeded from defaults and overridden from a delimiter separated file.    *)
(*                                                                         *)
(* A Rust String is modelled as a sequence of characters; a character is   *)
(* a token with a UTF-8 width, so that byte offsets (str::find, the slices *)
(* line[..i] and line[i + 1..]) are computed as the code computes them.    *)
(***************************************************************************)
EXTENDS Integers, Sequences, FiniteSets, TLC

(* ------------------------------ characters ----------------------------- *)
LF == "LF"
CR == "CR"
SP == " "
TAB == "TAB"
\* U+00E9, a character whose UTF-8 encoding takes two bytes
EACUTE == "U+00E9"

\* char::len_utf8
len_utf8(c) == IF c = EACUTE THEN 2 ELSE 1

\* char::is_whitespace, on the characters of the model
is_whitespace(c) == c \in {SP, TAB, LF, CR}

Digits == {"0", "1", "2", "3", "4", "5", "6", "7", "8", "9"}

DigitValue(c) ==
    CASE c = "0" -> 0 [] c = "1" -> 1 [] c = "2" -> 2 [] c = "3" -> 3
      [] c = "4" -> 4 [] c = "5" -> 5 [] c = "6" -> 6 [] c = "7" -> 7
      [] c = "8" -> 8 [] c = "9" -> 9

(* ------------------------------- bounds -------------------------------- *)
\* longest override file enumerated character by character
MaxFileLen == 3

(* ------------------------------- strings ------------------------------- *)
RECURSIVE byte_len(_)
\* str::len: the length in bytes
byte_len(s) == IF s = <<>> THEN 0 ELSE len_utf8(Head(s)) + byte_len(Tail(s))

\* byte offset at which the k-th character (1-based) of s starts
byte_offset(s, k) == byte_len(SubSeq(s, 1, k - 1))

\* str::is_char_boundary
is_char_boundary(s, i) == \E k \in 1..(Len(s) + 1) : byte_offset(s, k) = i

None == [tag |-> "None", val |-> <<>>]
Some(v) == [tag |-> "Some", val |-> v]

\* mutant of find: str::rfind, the byte offset of the last occurrence
rfind(s, c) ==
    LET hits == {k \in 1..Len(s) : s[k] = c}
    IN  IF hits = {} THEN None
        ELSE Some(byte_offset(s, CHOOSE k \in hits : \A h \in hits : k >= h))

\* str::find(char): the byte offset of the first occurrence
find(s, c) ==
    LET hits == {k \in 1..Len(s) : s[k] = c}
    IN  IF hits = {} THEN None
        ELSE Some(byte_offset(s, CHOOSE k \in hits : \A h \in hits : k <= h))

\* the characters of s whose bytes lie in [from, to): s[from..to] once both
\* offsets are known to be character boundaries
slice(s, from, to) ==
    LET ks == {k \in 1..Len(s) : byte_offset(s, k) >= from /\ byte_offset(s, k) < to}
    IN  IF ks = {} THEN <<>>
        ELSE SubSeq(s, CHOOSE k \in ks : \A h \in ks : k <= h,
                       CHOOSE k \in ks : \A h \in ks : k >= h)

\* str::trim
trim(s) ==
    LET keep == {k \in 1..Len(s) : ~is_whitespace(s[k])}
    IN  IF keep = {} THEN <<>>
        ELSE SubSeq(s, CHOOSE k \in keep : \A h \in keep : k <= h,
                       CHOOSE k \in keep : \A h \in keep : k >= h)

RECURSIVE lines(_)
\* str::lines: split after every "\n"; each piece loses its final "\n" and
\* then a final "\r"; a last piece without "\n" is a line as it stands
lines(contents) ==
    IF contents = <<>> THEN <<>>
    ELSE LET nl == {k \in 1..Len(contents) : contents[k] = LF}
         IN  IF nl = {} THEN <<contents>>
             ELSE LET n == CHOOSE k \in nl : \A h \in nl : k <= h
                      body == SubSeq(contents, 1, n - 1)
                      line == IF body # <<>> /\ body[Len(body)] = CR
                              THEN SubSeq(body, 1, Len(body) - 1)
                              ELSE body
                  IN  <<line>> \o lines(SubSeq(contents, n + 1, Len(contents)))

RECURSIVE digits_value(_, _)
digits_value(s, acc) ==
    IF s = <<>> THEN acc ELSE digits_value(Tail(s), 10 * acc + DigitValue(Head(s)))

\* <u16 as FromStr>::from_str, the T of conf.get::<u16>(..) in examples/main.rs
parse_u16(s) ==
    LET d == IF s # <<>> /\ Head(s) = "+" THEN Tail(s) ELSE s
    IN  IF d = <<>> \/ \E k \in 1..Len(d) : d[k] \notin Digits THEN None
        ELSE IF Len(d) > 5 /\ \E k \in 1..(Len(d) - 5) : d[k] # "0" THEN None
        ELSE LET v == digits_value(d, 0)
             IN  IF v > 65535 THEN None ELSE Some(v)

(* --------------------------- results of calls -------------------------- *)
Ok == [tag |-> "Ok", val |-> <<>>]
IoErr == [tag |-> "IoErr", val |-> <<>>]
\* Err(format!("No delimiter found in line: {line}"))
NoDelimErr(line) == [tag |-> "NoDelimErr", val |-> line]
\* the thread panicked: the call did not return
Panic == [tag |-> "Panic", val |-> <<>>]
SelfRef == [tag |-> "Self", val |-> <<>>]
Str(s) == [tag |-> "Str", val |-> s]

(* ------------------------------ the store ------------------------------ *)
DEFAULT_DELIM == ":"

NoDelim == "unset"

empty_string == <<>>

\* Conf::from
from(defs) ==
    [pairs |-> defs, delim |-> NoDelim, conf_file_name |-> "", updated |-> FALSE]

\* Conf::with_delim
with_delim(self, d) == [self EXCEPT !.delim = d]

\* Conf::delim, and self.delim.unwrap_or(DEFAULT_DELIM) in update
delim_of(self) == IF self.delim = NoDelim THEN DEFAULT_DELIM ELSE self.delim

\* Conf::with_file
with_file(self, name) == [self EXCEPT !.conf_file_name = name]

\* Conf::read_lines: fs::read_to_string fails for a path that names no file
read_lines(self, fs) ==
    IF self.conf_file_name \notin DOMAIN fs THEN IoErr
    ELSE [tag |-> "Ok", val |-> lines(fs[self.conf_file_name])]

\* mutant of entry_and_modify: insert, which adds the key when it is absent
insert(p, key, value) ==
    [k \in DOMAIN p \cup {key} |-> IF k = key THEN value ELSE p[k]]

\* mutant of entry_and_modify: and_modify(|v| v.push_str(value))
entry_and_push_str(p, key, value) ==
    IF key \in DOMAIN p THEN [p EXCEPT ![key] = @ \o value] ELSE p

\* self.pairs.entry(key).and_modify(|v| *v = value)
entry_and_modify(p, key, value) ==
    IF key \in DOMAIN p THEN [p EXCEPT ![key] = value] ELSE p

RECURSIVE update_loop(_, _, _)
\* the for loop of Conf::update
update_loop(p, d, ls) ==
    IF ls = <<>> THEN [pairs |-> p, ret |-> Ok]
    ELSE LET line == Head(ls)
             i == find(line, d)
         IN  IF i.tag = "None" THEN [pairs |-> p, ret |-> NoDelimErr(line)]
             ELSE IF ~is_char_boundary(line, i.val + 1) THEN [pairs |-> p, ret |-> Panic]
             ELSE LET key == trim(slice(line, 0, i.val))
                      value == trim(slice(line, i.val + 1, byte_len(line)))
                  IN  update_loop(entry_and_modify(p, key, value), d, Tail(ls))

\* mutant of update: the lines are committed only when all of them parse
update_transactional(self, fs) ==
    LET r == read_lines(self, fs)
    IN  IF r.tag # "Ok" THEN [self |-> self, ret |-> r]
        ELSE LET l == update_loop(self.pairs, delim_of(self), r.val)
             IN  IF l.ret.tag = "Ok"
                 THEN [self |-> [self EXCEPT !.pairs = l.pairs, !.updated = TRUE],
                       ret |-> l.ret]
                 ELSE [self |-> self, ret |-> l.ret]

\* mutant of update: the flag is set before the file is read
update_flag_first(self, fs) ==
    LET r == read_lines(self, fs)
        marked == [self EXCEPT !.updated = TRUE]
    IN  IF r.tag # "Ok" THEN [self |-> marked, ret |-> r]
        ELSE LET l == update_loop(self.pairs, delim_of(self), r.val)
             IN  [self |-> [marked EXCEPT !.pairs = l.pairs], ret |-> l.ret]

\* mutant of update: the flag tells whether the last load succeeded
update_flag_last(self, fs) ==
    LET r == read_lines(self, fs)
    IN  IF r.tag # "Ok" THEN [self |-> [self EXCEPT !.updated = FALSE], ret |-> r]
        ELSE LET l == update_loop(self.pairs, delim_of(self), r.val)
             IN  [self |-> [self EXCEPT !.pairs = l.pairs,
                                        !.updated = (l.ret.tag = "Ok")],
                  ret |-> l.ret]

\* Conf::update
update(self, fs) ==
    LET r == read_lines(self, fs)
    IN  IF r.tag # "Ok" THEN [self |-> self, ret |-> r]
        ELSE LET l == update_loop(self.pairs, delim_of(self), r.val)
             IN  [self |-> [self EXCEPT !.pairs = l.pairs,
                                        !.updated = IF l.ret.tag = "Ok" THEN TRUE ELSE @],
                  ret |-> l.ret]

\* Conf::get::<u16>
get(self, key) ==
    IF key \in DOMAIN self.pairs THEN parse_u16(self.pairs[key]) ELSE None

\* mutant of index: indexes the map itself, which panics on an absent key
index_of_map(self, key) ==
    IF key \in DOMAIN self.pairs THEN Str(self.pairs[key]) ELSE Panic

\* <Conf as Index<&str>>::index
index(self, key) ==
    IF key \in DOMAIN self.pairs THEN Str(self.pairs[key]) ELSE Str(empty_string)

RECURSIVE fmt(_, _)
\* <Conf as Display>::fmt, the entries visited in the order given
fmt(self, order) ==
    IF order = <<>> THEN <<>>
    ELSE LET key == Head(order)
             value == self.pairs[key]
             formatted_value == IF value = <<>> THEN empty_string ELSE value
         IN  key \o <<delim_of(self), SP>> \o formatted_value \o <<LF>>
                 \o fmt(self, Tail(order))

\* the orders in which a HashMap with these keys may be iterated
IterationOrders(keys) ==
    {o \in [1..Cardinality(keys) -> keys] : \A k \in keys : \E n \in DOMAIN o : o[n] = k}

(* ------------------------------- inputs -------------------------------- *)
FileAlphabet == {"a", ":", SP, LF}

SeqsUpTo(S, n) == UNION {[1..k -> S] : k \in 0..n}

ExampleFiles ==
    { <<"a", ":", "9", LF, "c", ":", "5">>,
      <<"a", ":", "9", LF, "b", "a", "d", "l", "i", "n", "e", LF, "b", ":", "3">>,
      <<"a", ":", "1", ":", "8">>,
      <<SP, SP, "a", SP, SP, ":", SP, SP, "9", SP, SP>>,
      <<"a", ":", "9", LF, "a", ":", "3", LF>>,
      <<"a", ":", "9", CR, LF, "b", ":", "3", CR, LF>>,
      <<"a", "=", "9", LF, "b", SP, "=", SP, "3", "=", LF>>,
      <<"a", EACUTE, "9">>,
      <<"b", "=", "1", LF, "a", EACUTE, "9">> }

Files == SeqsUpTo(FileAlphabet, MaxFileLen) \cup ExampleFiles

A == <<"a">>
B == <<"b">>

DefaultsSet ==
    { [k \in {A, B} |-> IF k = A THEN <<"1">> ELSE <<"2">>],
      [k \in {A} |-> <<SP, "1">>],
      [k \in {A, <<>>} |-> IF k = A THEN <<>> ELSE <<"8", "0">>],
      [k \in {A, <<"a", ":", "b">>} |-> IF k = A THEN <<"1">> ELSE <<"2">>],
      [k \in {} |-> <<>>] }

Delims == {"=", EACUTE}

ConfPath == "conf"
Paths == {ConfPath, "missing"}

LookupKeys == {A, <<>>, <<"c">>}

(* -------------------------------- state -------------------------------- *)
VARIABLES
    pairs,           \* Conf.pairs
    delim,           \* Conf.delim
    conf_file_name,  \* Conf.conf_file_name
    updated,         \* Conf.updated
    file,            \* the contents of the file at ConfPath
    defaults,        \* the argument of Conf::from
    pre,             \* the store as it was before the last call
    lastOp,          \* the last call and its argument
    updates,         \* whether update() has been called
    ret              \* what the last call returned

vars == <<pairs, delim, conf_file_name, updated, file, defaults, pre, lastOp, updates, ret>>

Self ==
    [pairs |-> pairs, delim |-> delim, conf_file_name |-> conf_file_name,
     updated |-> updated]

Fs == [p \in {ConfPath} |-> file]

\* a panic unwinds out of the caller: no later call is made on the store
Running == ret.tag # "Panic"

Store(s) ==
    /\ pairs' = s.pairs
    /\ delim' = s.delim
    /\ conf_file_name' = s.conf_file_name
    /\ updated' = s.updated

Call(op, arg, s, r) ==
    /\ Running
    /\ Store(s)
    /\ pre' = Self
    /\ lastOp' = [op |-> op, arg |-> arg]
    /\ ret' = r
    /\ UNCHANGED <<file, defaults>>

Init ==
    /\ defaults \in DefaultsSet
    /\ file \in Files
    /\ pairs = from(defaults).pairs
    /\ delim = from(defaults).delim
    /\ conf_file_name = from(defaults).conf_file_name
    /\ updated = from(defaults).updated
    /\ pre = from(defaults)
    /\ lastOp = [op |-> "from", arg |-> <<>>]
    /\ updates = FALSE
    /\ ret = SelfRef

WithDelim ==
    \E d \in Delims :
        /\ Call("with_delim", d, with_delim(Self, d), SelfRef)
        /\ UNCHANGED updates

WithFile ==
    \E name \in Paths :
        /\ Call("with_file", name, with_file(Self, name), SelfRef)
        /\ UNCHANGED updates

Update ==
    LET u == update(Self, Fs)
    IN  /\ Call("update", <<>>, u.self, u.ret)
        /\ updates' = TRUE

Get ==
    \E key \in LookupKeys :
        /\ Call("get", key, Self, get(Self, key))
        /\ UNCHANGED updates

Index ==
    \E key \in LookupKeys :
        /\ Call("index", key, Self, index(Self, key))
        /\ UNCHANGED updates

Display ==
    \E order \in IterationOrders(DOMAIN pairs) :
        /\ Call("display", <<>>, Self, Str(fmt(Self, order)))
        /\ UNCHANGED updates

\* the caller saves the text Display produced as the override file
WriteFile ==
    /\ Running
    /\ lastOp.op = "display"
    /\ file' = ret.val
    /\ lastOp' = [op |-> "write", arg |-> <<>>]
    /\ pre' = Self
    /\ ret' = Ok
    /\ UNCHANGED <<pairs, delim, conf_file_name, updated, defaults, updates>>

Next ==
    \/ WithDelim
    \/ WithFile
    \/ Update
    \/ Get
    \/ Index
    \/ Display
    \/ WriteFile

Spec == Init /\ [][Next]_vars

(* ------------------------- what the claims use ------------------------- *)
HasDelim(line, d) == \E n \in 1..Len(line) : line[n] = d

\* the position, in characters, of the first occurrence of d in line
FirstDelim(line, d) ==
    CHOOSE n \in 1..Len(line) : line[n] = d /\ \A m \in 1..(n - 1) : line[m] # d

LineKey(line, d) == trim(SubSeq(line, 1, FirstDelim(line, d) - 1))

LineValue(line, d) == trim(SubSeq(line, FirstDelim(line, d) + 1, Len(line)))

\* the lines of ls that name key k
Naming(ls, d, k) == {j \in 1..Len(ls) : HasDelim(ls[j], d) /\ LineKey(ls[j], d) = k}

\* the table p0 with every key set from the last line of ls that names it
Overridden(p0, ls, d) ==
    [k \in DOMAIN p0 |->
        LET M == Naming(ls, d, k)
        IN  IF M = {} THEN p0[k]
            ELSE LineValue(ls[CHOOSE j \in M : \A h \in M : j >= h], d)]

\* the last call was update() and it read the file
Loaded == lastOp.op = "update" /\ pre.conf_file_name \in DOMAIN Fs

FileLines == lines(file)

AB == [k \in {A, B} |-> IF k = A THEN <<"1">> ELSE <<"2">>]

BadLineFile ==
    <<"a", ":", "9", LF, "b", "a", "d", "l", "i", "n", "e", LF, "b", ":", "3">>

HostFile == <<"a", ":", "1", ":", "8">>

(* -------------------------------- claims ------------------------------- *)

\* C1: the keys of the table are always exactly the keys of the defaults:
\* update() never inserts a key and no operation removes one.
C1_KeysAreTheDefaultKeys == DOMAIN pairs = DOMAIN defaults

\* C1 witness: a successful update() read a line whose key is not in the table
C1_Witness ==
    /\ Loaded
    /\ ret.tag = "Ok"
    /\ \E j \in 1..Len(FileLines) :
           /\ HasDelim(FileLines[j], delim_of(pre))
           /\ LineKey(FileLines[j], delim_of(pre)) \notin DOMAIN pairs
    /\ pairs # defaults

\* C2: when update() fails on a line without the delimiter, the lines before
\* it have been applied, no line after it has, and the error names the line;
\* for defaults a=1, b=2 and lines 'a:9', 'badline', 'b:3' the call fails with
\* a = 9 and b = 2.
C2_PartialFailure ==
    /\ (Loaded /\ ret.tag = "NoDelimErr") =>
           \E j \in 1..Len(FileLines) :
               /\ ~HasDelim(FileLines[j], delim_of(pre))
               /\ \A m \in 1..(j - 1) : HasDelim(FileLines[m], delim_of(pre))
               /\ ret.val = FileLines[j]
               /\ pairs = Overridden(pre.pairs, SubSeq(FileLines, 1, j - 1), delim_of(pre))
    /\ (Loaded /\ file = BadLineFile /\ pre.pairs = AB /\ pre.delim = NoDelim) =>
           /\ ret.tag = "NoDelimErr"
           /\ pairs[A] = <<"9">>
           /\ pairs[B] = <<"2">>

\* C2 witness: the failing load of the example has changed a and left b
C2_Witness ==
    /\ Loaded
    /\ file = BadLineFile
    /\ pre.pairs = AB
    /\ ret.tag = "NoDelimErr"
    /\ pairs # pre.pairs

\* C3: an update() whose file cannot be read returns an error and leaves the
\* values, the delimiter, the source path and the updated flag as they were.
C3_IoFailureChangesNothing ==
    (lastOp.op = "update" /\ pre.conf_file_name \notin DOMAIN Fs) =>
        /\ ret.tag = "IoErr"
        /\ Self = pre

\* C3 witness: update() failed on a path that names no file, after a path was set
C3_Witness ==
    /\ lastOp.op = "update"
    /\ ret.tag = "IoErr"
    /\ conf_file_name = "missing"
    /\ delim # NoDelim

\* C4: after a successful update() every key named by a line (the trimmed
\* text before the first delimiter) holds the trimmed text after the first
\* delimiter of the last such line, and every other key holds its old value;
\* 'a:1:8' sets a to '1:8'.
C4_LastLineWins ==
    /\ (Loaded /\ ret.tag = "Ok") =>
           pairs = Overridden(pre.pairs, FileLines, delim_of(pre))
    /\ (Loaded /\ ret.tag = "Ok" /\ file = HostFile /\ A \in DOMAIN pairs) =>
           pairs[A] = <<"1", ":", "8">>

\* C4 witness: a successful load of a line with two delimiters
C4_Witness ==
    /\ Loaded
    /\ ret.tag = "Ok"
    /\ file = HostFile
    /\ A \in DOMAIN pairs
    /\ pairs[A] = <<"1", ":", "8">>
    /\ pre.pairs[A] # pairs[A]

\* C5: updated is false after construction, becomes true exactly in an
\* update() that returns success, and once true stays true.
C5_UpdatedFlag ==
    /\ ~updated
    /\ [][updated' = (updated \/ (lastOp'.op = "update" /\ ret'.tag = "Ok"))]_vars

\* C5 witness: a failing update() after a successful one has left the flag set
C5_Witness ==
    /\ updated
    /\ pre.updated
    /\ lastOp.op = "update"
    /\ ret.tag \in {"IoErr", "NoDelimErr"}

\* C6: update() reports the malformed-line error exactly when a non-empty
\* line of the readable file lacks the delimiter; a file whose lines are each
\* empty or contain the delimiter loads and sets updated.
C6_OnlyNonEmptyLinesNeedDelim ==
    Loaded =>
        /\ (ret.tag = "NoDelimErr") <=>
               \E j \in 1..Len(FileLines) :
                   FileLines[j] # <<>> /\ ~HasDelim(FileLines[j], delim_of(pre))
        /\ (\A j \in 1..Len(FileLines) :
                FileLines[j] = <<>> \/ HasDelim(FileLines[j], delim_of(pre))) =>
               (ret.tag = "Ok" /\ updated)

\* C7: update() called again with the file, the delimiter and the path
\* unchanged leaves the same table and ends with the same outcome.
C7_ReloadIdempotent ==
    lastOp.op = "update" =>
        /\ update(Self, Fs).self.pairs = pairs
        /\ update(Self, Fs).ret = ret

\* C7 witness: a load that stopped at a malformed line after changing a value
C7_Witness ==
    /\ Loaded
    /\ ret.tag = "NoDelimErr"
    /\ pairs # pre.pairs

\* C8: index(key) never fails and never changes the store; it returns the
\* stored string of a present key and the empty string for an absent key, and
\* before any update() the string is the key's default.
C8_Index ==
    lastOp.op = "index" =>
        /\ ret.tag = "Str"
        /\ Self = pre
        /\ lastOp.arg \in DOMAIN pairs => ret.val = pairs[lastOp.arg]
        /\ lastOp.arg \notin DOMAIN pairs => ret.val = <<>>
        /\ (~updates /\ lastOp.arg \in DOMAIN defaults) => ret.val = defaults[lastOp.arg]

\* C8 witness: an absent key was indexed after an update
C8_Witness ==
    /\ lastOp.op = "index"
    /\ lastOp.arg \notin DOMAIN pairs
    /\ DOMAIN pairs # {}
    /\ updates
    /\ ret.tag = "Str"

\* C9: an update() that reads what Display rendered of the table, with the
\* same delimiter, succeeds and leaves every value unchanged.
C9_DisplayRoundTrip ==
    (/\ Loaded
     /\ \E o \in IterationOrders(DOMAIN pre.pairs) : file = fmt(pre, o)) =>
        /\ ret.tag = "Ok"
        /\ pairs = pre.pairs

\* C10: for every delimiter set with with_delim, update() returns success or
\* an error value and never aborts.
C10_UpdateAlwaysReturns ==
    lastOp.op = "update" => ret.tag \in {"Ok", "IoErr", "NoDelimErr"}

=============================================================================
